---- MODULE Spec2Model ----
(***************************************************************************)
(* Model of the PartA2 detector of mmdet3d/models/detectors/parta2.py:     *)
(* the spherical projection pair (lidar_to_range_gpu, range_to_lidar_gpu), *)
(* the voxelization bookkeeping (voxelize, extract_feat) and the           *)
(* train / test orchestration (forward_train, simple_test).                *)
(*                                                                         *)
(* Number representation.  Tensors hold float32 values; the model uses     *)
(* exact integers in fixed point:                                          *)
(*   - lengths, depths and features are in thousandths (Fix(1) = 1000);    *)
(*   - angles are in angle units of pi / 46080 (1/256 degree), in which    *)
(*     every entry of the angular grid uv is an integer;                   *)
(*   - sines and cosines are scaled by TrigOne;                            *)
(*   - voxel centers are in halves of the voxel-size unit.                 *)
(* A NaN is modelled by the predicate that says when the code produces it. *)
(***************************************************************************)
EXTENDS Integers, Sequences, FiniteSets, TLC

VARIABLES
    uv,            \* self.uv: [device, data], the (2, H, W) grid of pitch and yaw
    voxel_layer,   \* self.voxel_layer configuration: [voxel_size, point_cloud_range]
    cfg,           \* with_rpn, with_neck, train_cfg, test_cfg given to __init__
    call,          \* the method called last, "idle" when no result is pending
    arguments,     \* the arguments of the last call
    returned,      \* what the last call computed and returned
    err            \* the exception the last call raised, "none" if it returned

vars == <<uv, voxel_layer, cfg, call, arguments, returned, err>>

----------------------------------------------------------------------------
(* Constants of __init__ *)

H == 48
W == 512
fov_up == 3
fov_down == -15

\* np.pi in angle units: pi = 46080 units, so 1 degree = 256 units.
pi == 46080

\* Number of rows of the lidar_out buffer of range_to_lidar_gpu.
LidarOutChannels == 12

\* Channels of the range image lidar_to_range_gpu allocates.
RangeChannels == 5

\* Fixed point scale of lengths.
FixOne == 1000
Fix(n) == n * FixOne

\* Fixed point scale of sines and cosines (2^14).
TrigOne == 16384

Abs(a) == IF a < 0 THEN -a ELSE a
Min(a, b) == IF a < b THEN a ELSE b
Max(a, b) == IF a > b THEN a ELSE b

\* x * pi / 180.0 of lines 49-50 and 205-206
DegToRad(d) == (d * pi) \div 180

----------------------------------------------------------------------------
(* Library functions the code calls, in fixed point *)

\* floor(sqrt(n)) by bisection, n >= 0
RECURSIVE IsqrtBetween(_, _, _)
IsqrtBetween(n, lo, hi) ==
    IF hi - lo <= 1 THEN lo
    ELSE LET mid == (lo + hi) \div 2
         IN  IF mid * mid <= n THEN IsqrtBetween(n, mid, hi)
                               ELSE IsqrtBetween(n, lo, mid)

Isqrt(n) == IsqrtBetween(n, 0, 46341)

\* atan(2^-i) in angle units, i = 0 .. 14
AtanTab == <<11520, 6801, 3593, 1824, 916, 458, 229, 115, 57, 29, 14, 7, 4, 2, 1>>

Pow2(i) == 2 ^ i

\* CORDIC in vectoring mode: the angle of (x, y), x > 0, accumulated in acc.
\* It stops as soon as the vector lies on the axis, so 0 and 45 degrees are exact.
RECURSIVE CordicVec(_, _, _, _)
CordicVec(x, y, i, acc) ==
    IF y = 0 \/ i > Len(AtanTab) - 1 THEN acc
    ELSE IF y > 0
         THEN CordicVec(x + (y \div Pow2(i)), y - (x \div Pow2(i)), i + 1, acc + AtanTab[i + 1])
         ELSE CordicVec(x - (y \div Pow2(i)), y + (x \div Pow2(i)), i + 1, acc - AtanTab[i + 1])

\* torch.atan2(y, x), in angle units, in (-pi, pi]
atan2(y, x) ==
    IF x = 0 /\ y = 0 THEN 0
    ELSE IF x = 0 THEN (IF y > 0 THEN pi \div 2 ELSE -(pi \div 2))
    ELSE IF x > 0 THEN CordicVec(x * TrigOne, y * TrigOne, 0, 0)
    ELSE IF y >= 0 THEN pi - CordicVec((-x) * TrigOne, y * TrigOne, 0, 0)
    ELSE -pi - CordicVec((-x) * TrigOne, y * TrigOne, 0, 0)

\* torch.asin(num / den) for 0 < den, |num| <= den, in angle units
asin(num, den) == atan2(num, Isqrt(den * den - num * num))

\* CORDIC in rotation mode: rotates (x, y) by the angle z; returns <<cos, sin>> * TrigOne
\* when started from (CordicGain, 0).
CordicGain == 9949

RECURSIVE CordicRot(_, _, _, _)
CordicRot(x, y, z, i) ==
    IF i > Len(AtanTab) - 1 THEN <<x, y>>
    ELSE IF z >= 0
         THEN CordicRot(x - (y \div Pow2(i)), y + (x \div Pow2(i)), z - AtanTab[i + 1], i + 1)
         ELSE CordicRot(x + (y \div Pow2(i)), y - (x \div Pow2(i)), z + AtanTab[i + 1], i + 1)

\* <<cos, sin>> of an angle in [-pi/2, pi/2], scaled by TrigOne
CosSin(a) == IF a = 0 THEN <<TrigOne, 0>> ELSE CordicRot(CordicGain, 0, a, 0)

----------------------------------------------------------------------------
(* __init__, lines 44-56: the angular grid *)

\* fov = abs(fov_up) + abs(fov_down), in angle units
fov == Abs(DegToRad(fov_up)) + Abs(DegToRad(fov_down))

\* The grid is a (2, H, W) tensor.  Lines 53-54 fill it by broadcast: plane 1
\* with one value per column, plane 0 with one value per row, and lines 55-56
\* map the planes elementwise.  The model stores plane 0 as its H row values
\* and plane 1 as its W column values; GridAt reads entry [k][r][c].
GridAt(grid, k, r, c) == IF k = 0 THEN grid[1][r + 1] ELSE grid[2][c + 1]

\* uv = zeros((2, H, W)); uv[1] = arange(W); uv.permute((0, 2, 1))[0] = arange(H)
UvArange == <<[r \in 1..H |-> r - 1], [c \in 1..W |-> c - 1]>>

\* uv[0] = ((H - uv[0]) * fov - abs(fov_down) * H) / H
UvPitch(g) == ((H - g) * fov - Abs(DegToRad(fov_down)) * H) \div H

\* uv[1] = (uv[1] * 2.0 - W) * pi / (W * 4)
UvYaw(g) == ((g * 2 - W) * pi) \div (W * 4)

UvData ==
    <<[r \in 1..H |-> UvPitch(UvArange[1][r])], [c \in 1..W |-> UvYaw(UvArange[2][c])]>>

\* The cosines and sines of the angles of the grid, computed once
GridAngles == {UvData[1][r] : r \in 1..H} \cup {UvData[2][c] : c \in 1..W}
GridCosSin == [a \in GridAngles |-> CosSin(a)]

\* torch.cos and torch.sin, scaled by TrigOne
cos(a) == IF a \in GridAngles THEN GridCosSin[a][1] ELSE CosSin(a)[1]
sin(a) == IF a \in GridAngles THEN GridCosSin[a][2] ELSE CosSin(a)[2]

Devices == {"cpu", "cuda"}

\* Mutant of To: the moved grid is rebuilt from the index ramps, unscaled.
ToRebuilt(tensor, device) == [device |-> device, data |-> UvArange]

\* tensor.to(device): the same values on the given device
To(tensor, device) == [tensor EXCEPT !.device = device]

----------------------------------------------------------------------------
(* lidar_to_range_gpu, lines 202-239 *)

\* A point is <<x, y, z, f>> in whole units; the tensor holds Fix of each.
Col(p, k) == Fix(p[k + 1])

RECURSIVE SumSq(_, _)
SumSq(p, k) == IF k = 0 THEN 0 ELSE Col(p, k - 1) * Col(p, k - 1) + SumSq(p, k - 1)

\* depth = torch.norm(points, 2, dim=1): the 2-norm of the whole row
Depth(p) == Isqrt(SumSq(p, Len(p)))

\* yaw = torch.atan2(y, x)
Yaw(p) == atan2(Col(p, 1), Col(p, 0))

\* pitch = torch.asin(z / depth) is NaN exactly when depth = 0 (then z = 0: 0 / 0)
PitchIsNaN(p) == Depth(p) = 0
Pitch(p) == asin(Col(p, 2), Depth(p))

\* u = floor(0.5 * (1 - 4 * yaw / pi) * W)
UFloor(p) == ((pi - 4 * Yaw(p)) * W) \div (2 * pi)

\* v = floor((1 - (pitch + abs(fov_down)) / fov) * H)
VFloor(p) == ((fov - (Pitch(p) + Abs(DegToRad(fov_down)))) * H) \div fov

\* torch.max(torch.min(t, hi), zero)
Clamp(t, hi) == Max(Min(t, hi), 0)

\* What .long() makes of a NaN is undefined in C++: the x86 conversion yields
\* the minimum long, the CUDA and ARM conversions yield 0.  LongMin stands for
\* -2^63 within the 32 bit integers of the model checker.
LongMin == -2147483647
NanToLong == {0, LongMin}

UIndex(p) == Clamp(UFloor(p), W - 1)
VIndex(p, nanLong) == IF PitchIsNaN(p) THEN nanLong ELSE Clamp(VFloor(p), H - 1)

\* An index tensor entry is valid in [-size, size); negative entries wrap.
IndexOk(i, size) == -size <= i /\ i < size
Wrap(i, size) == IF i < 0 THEN i + size ELSE i

\* The value point i writes into channel k: depth, points[:, 3], points[:, 0..2]
ChannelValue(p, k) ==
    IF k = 0 THEN Depth(p)
    ELSE IF k = 1 THEN Col(p, 3)
    ELSE Col(p, k - 2)

EmptyCells == [cell \in {} |-> [k \in {} |-> 0]]

\* Which of the points writing one cell is kept by t[v, u] = values when
\* <<v, u>> repeats is undefined for index_put_ without accumulate (on CUDA the
\* writes race): any of them, separately for each of the five assignments.
Winners(cellOf, cells) ==
    {w \in [cells -> DOMAIN cellOf] : \A cell \in cells : cellOf[w[cell]] = cell}

\* The outcomes of lidar_to_range_gpu(points) for points on the given device.
LidarToRangeOutcomes(points, device) ==
    UNION { LET N == Len(points)
          u == [i \in 1..N |-> UIndex(points[i])]
          v == [i \in 1..N |-> VIndex(points[i], nanLong)]
          ok == \A i \in 1..N : IndexOk(v[i], H) /\ IndexOk(u[i], W)
          cellOf == [i \in 1..N |-> <<Wrap(v[i], H), Wrap(u[i], W)>>]
          cells == {cellOf[i] : i \in 1..N}
      IN  IF ~ok
          THEN {[err |-> "IndexError", u |-> u, v |-> v,
                 image |-> [C |-> 0, device |-> device, cells |-> EmptyCells]]}
          ELSE {[err |-> "none", u |-> u, v |-> v,
                 image |-> [C |-> RangeChannels, device |-> device,
                            cells |-> [cell \in cells |-> [k \in 0..(RangeChannels - 1) |->
                                          ChannelValue(points[win[k][cell]], k)]]]]
                : win \in [0..(RangeChannels - 1) -> Winners(cellOf, cells)]}
            : nanLong \in NanToLong }

----------------------------------------------------------------------------
(* range_to_lidar_gpu, lines 241-251 *)

\* A range image is [C, device, cells]: C channels, and for every cell <<row, col>>
\* of cells its C channel values; every other cell of the H x W grid holds 0.
At(img, cell, k) == IF cell \in DOMAIN img.cells THEN img.cells[cell][k] ELSE 0

\* lidar_out[3:] = range_img[1:] assigns C - 1 rows to LidarOutChannels - 3 rows:
\* the shapes must be equal, or the source must have one row, which is broadcast.
AssignOk(C) == C >= 1 /\ (C - 1 = LidarOutChannels - 3 \/ C - 1 = 1)

\* Row k of lidar_out at one cell, after lines 245-248
LidarOutAt(img, grid, cell, k) ==
    LET depth == At(img, cell, 0)
        a0 == GridAt(grid, 0, cell[1], cell[2])
        a1 == GridAt(grid, 1, cell[1], cell[2])
    IN  IF k = 0 THEN (((depth * cos(a0)) \div TrigOne) * cos(a1)) \div TrigOne
        ELSE IF k = 1 THEN ((((depth * cos(a0)) \div TrigOne) * sin(a1)) \div TrigOne) * (-1)
        ELSE IF k = 2 THEN (depth * sin(a0)) \div TrigOne
        ELSE IF img.C - 1 = 1 THEN At(img, cell, 1)
        ELSE At(img, cell, k - 2)

\* permute((2, 1, 0)).reshape([-1, 12]): the row of cell <<r, c>> is c * H + r
RowOf(cell) == cell[2] * H + cell[1]

RECURSIVE InRowOrder(_)
InRowOrder(cells) ==
    IF cells = {} THEN <<>>
    ELSE LET first == CHOOSE a \in cells : \A b \in cells : RowOf(a) <= RowOf(b)
         IN  <<first>> \o InRowOrder(cells \ {first})

\* lidar_out[torch.where(lidar_out[:, 0] != 0)]
KeptCells(img, grid) == {cell \in DOMAIN img.cells : LidarOutAt(img, grid, cell, 0) # 0}

NoRows == [i \in {} |-> [k \in {} |-> 0]]

\* range_to_lidar_gpu(range_img) with the grid self.uv holds
RangeToLidar(img, grid) ==
    IF ~AssignOk(img.C)
    THEN [err |-> "RuntimeError", lidar_out |-> NoRows]
    ELSE LET order == InRowOrder(KeptCells(img, grid))
         IN  [err |-> "none",
              lidar_out |-> [i \in 1..Len(order) |-> [k \in 0..(LidarOutChannels - 1) |->
                                LidarOutAt(img, grid, order[i], k)]]]

----------------------------------------------------------------------------
(* voxelize, lines 76-105 *)

\* torch.cat(tensors, dim=0) of a non-empty list
RECURSIVE Cat(_)
Cat(tensors) == IF Len(tensors) = 0 THEN <<>> ELSE Head(tensors) \o Cat(Tail(tensors))

\* Mutant of VoxelCenter: the columns of res_coors are not reversed.
VoxelCenterUnreversed(coor, layer) ==
    [k \in 1..3 |-> (2 * coor[k] + 1) * layer.voxel_size[k] + 2 * layer.point_cloud_range[k]]

\* (res_coors[:, [2, 1, 0]] + 0.5) * voxel_size + point_cloud_range[0:3], for one
\* row <<z, y, x>> of res_coors; the result is in halves.
VoxelCenter(coor, layer) ==
    [k \in 1..3 |-> (2 * coor[4 - k] + 1) * layer.voxel_size[k] + 2 * layer.point_cloud_range[k]]

\* Mutant of Pad: every row is padded with 0 instead of the sample's index.
PadZero(coor, i) == <<0>> \o coor

\* F.pad(coor, (1, 0), mode='constant', value=i), for one row of coor
Pad(coor, i) == <<i>> \o coor

\* for i, coor in enumerate(coors): the rows of sample number i (from 0)
CoorPad(res, i) == [j \in 1..Len(res[i + 1]) |-> Pad(res[i + 1][j].coor, i)]

EmptyVoxelDict == [voxels |-> <<>>, num_points |-> <<>>, coors |-> <<>>, voxel_centers |-> <<>>]

\* voxelize(points), where res[i] is what self.voxel_layer returns for sample i:
\* a sequence of voxels [voxel, coor, num], coor = <<z, y, x>>.
Voxelize(res, layer) ==
    IF Len(res) = 0
    THEN [err |-> "RuntimeError", voxel_dict |-> EmptyVoxelDict]
    ELSE [err |-> "none",
          voxel_dict |->
            [voxels |-> Cat([i \in 1..Len(res) |-> [j \in 1..Len(res[i]) |-> res[i][j].voxel]]),
             num_points |-> Cat([i \in 1..Len(res) |-> [j \in 1..Len(res[i]) |-> res[i][j].num]]),
             coors |-> Cat([i \in 1..Len(res) |-> CoorPad(res, i - 1)]),
             voxel_centers |-> Cat([i \in 1..Len(res) |->
                                  [j \in 1..Len(res[i]) |-> VoxelCenter(res[i][j].coor, layer)]])]]

----------------------------------------------------------------------------
(* extract_feat, lines 61-74 *)

\* Mutant of BatchSize: the first row is read instead of the last.
BatchSizeOfFirstRow(coors) == coors[1][1] + 1

\* batch_size = voxel_dict['coors'][-1, 0].item() + 1
BatchSize(coors) == coors[Len(coors)][1] + 1

\* The keys of feats_dict: the middle encoder's, and the neck's if there is one
FeatsKeys(with_neck) == {"spatial_features"} \cup (IF with_neck THEN {"neck_feats"} ELSE {})

\* extract_feat(points): middle_encoder holds the batch sizes passed to the middle encoder
ExtractFeat(res, layer, with_neck) ==
    LET vox == Voxelize(res, layer)
    IN  IF vox.err # "none"
        THEN [err |-> vox.err, voxel_dict |-> vox.voxel_dict, middle_encoder |-> <<>>, feats_dict |-> {}]
        ELSE IF Len(vox.voxel_dict.coors) = 0
        THEN [err |-> "IndexError", voxel_dict |-> vox.voxel_dict, middle_encoder |-> <<>>,
              feats_dict |-> {}]
        ELSE [err |-> "none", voxel_dict |-> vox.voxel_dict,
              middle_encoder |-> <<BatchSize(vox.voxel_dict.coors)>>,
              feats_dict |-> FeatsKeys(with_neck)]

----------------------------------------------------------------------------
(* forward_train, lines 107-170, and simple_test, lines 172-200 *)

\* dict.get(key, default) and attribute access on a config: the default is an
\* argument, so it is evaluated before get is called; a config that is None or
\* lacks the attribute raises AttributeError.
HasAttr(config, key) == ~config.none /\ key \in DOMAIN config.entries

\* proposal_cfg = self.train_cfg.get('rpn_proposal', self.test_cfg.rpn)
TrainProposalCfg(train_cfg, test_cfg) ==
    IF train_cfg.none \/ ~HasAttr(test_cfg, "rpn")
    THEN [err |-> "AttributeError", value |-> ""]
    ELSE IF "rpn_proposal" \in DOMAIN train_cfg.entries
    THEN [err |-> "none", value |-> train_cfg.entries["rpn_proposal"]]
    ELSE [err |-> "none", value |-> test_cfg.entries["rpn"]]

\* proposal_cfg = self.test_cfg.rpn
TestProposalCfg(test_cfg) ==
    IF ~HasAttr(test_cfg, "rpn")
    THEN [err |-> "AttributeError", value |-> ""]
    ELSE [err |-> "none", value |-> test_cfg.entries["rpn"]]

\* range_feat = self.fusion(rangeImage, img): a learned module outside this
\* file.  It returns n channels for every cell; their values are opaque, the
\* model gives channel j the value Fix(j + 1).
Fusion(img, n) ==
    [C |-> n, device |-> img.device,
     cells |-> [cell \in DOMAIN img.cells |-> [j \in 0..(n - 1) |-> Fix(j + 1)]]]

\* range_ori = torch.cat((rangeImage[:, 0:2], range_feat), dim=1), for one sample
RangeOri(img, feat) ==
    [C |-> 2 + feat.C, device |-> img.device,
     cells |-> [cell \in DOMAIN img.cells |-> [k \in 0..(1 + feat.C) |->
                   IF k < 2 THEN img.cells[cell][k] ELSE feat.cells[cell][k - 2]]]]

\* The first part of forward_train and simple_test, lines 132-143 and 176-187.
\* outs[i] is the outcome of lidar_to_range_gpu(points[i]), n the number of
\* channels fusion returns.  at names the line that raised, moved says whether
\* range_to_lidar_gpu ran and moved self.uv.
RangeStage(outs, n, grid) ==
    LET failed == {i \in 1..Len(outs) : outs[i].err # "none"}
        range_ori == [i \in 1..Len(outs) |-> RangeOri(outs[i].image, Fusion(outs[i].image, n))]
        back == [i \in 1..Len(outs) |-> RangeToLidar(range_ori[i], grid)]
        none == [err |-> "none", at |-> "", moved |-> FALSE, pts_with_range |-> <<>>]
    IN  IF failed # {}
        THEN [none EXCEPT !.err = "IndexError", !.at = "lidar_to_range_gpu"]
        ELSE IF Len(outs) = 0
        THEN [none EXCEPT !.err = "RuntimeError", !.at = "torch.cat"]
        ELSE IF back[1].err # "none"
        THEN [none EXCEPT !.err = back[1].err, !.at = "range_to_lidar_gpu", !.moved = TRUE]
        ELSE [none EXCEPT !.moved = TRUE,
                          !.pts_with_range = [i \in 1..Len(outs) |-> back[i].lidar_out]]

\* The second part, lines 145 and 189: extract_feat(pts_with_range), where
\* res[i] is what the voxel layer returns for sample i of pts_with_range.
Pipeline(stage, res, layer, with_neck) ==
    LET feat == ExtractFeat(res, layer, with_neck)
        none == [err |-> stage.err, at |-> stage.at, middle_encoder |-> <<>>, feats_dict |-> {}]
    IN  IF stage.err # "none" THEN none
        ELSE IF feat.err # "none"
        THEN [none EXCEPT !.err = feat.err, !.at = "extract_feat"]
        ELSE [none EXCEPT !.middle_encoder = feat.middle_encoder,
                          !.feats_dict = feat.feats_dict]

\* Lines 149-170 after the pipeline: get_bboxes holds the proposal configs passed
\* to rpn_head.get_bboxes, roi_head whether the roi head was run.
TrainHeads(pipe, config) ==
    LET proposal == TrainProposalCfg(config.train_cfg, config.test_cfg)
        out == [err |-> pipe.err, at |-> pipe.at, middle_encoder |-> pipe.middle_encoder,
                rpn_head |-> FALSE, get_bboxes |-> <<>>, roi_head |-> FALSE]
    IN  IF pipe.err # "none" THEN out
        ELSE IF ~config.with_rpn THEN [out EXCEPT !.roi_head = TRUE]
        ELSE IF "neck_feats" \notin pipe.feats_dict
        THEN [out EXCEPT !.err = "KeyError", !.at = "rpn_head"]
        ELSE IF proposal.err # "none"
        THEN [out EXCEPT !.err = proposal.err, !.at = "proposal_cfg", !.rpn_head = TRUE]
        ELSE [out EXCEPT !.rpn_head = TRUE, !.get_bboxes = <<proposal.value>>, !.roi_head = TRUE]

\* Lines 191-200 after the pipeline
TestHeads(pipe, config) ==
    LET proposal == TestProposalCfg(config.test_cfg)
        out == [err |-> pipe.err, at |-> pipe.at, middle_encoder |-> pipe.middle_encoder,
                rpn_head |-> FALSE, get_bboxes |-> <<>>, roi_head |-> FALSE]
    IN  IF pipe.err # "none" THEN out
        ELSE IF ~config.with_rpn THEN [out EXCEPT !.roi_head = TRUE]
        ELSE IF "neck_feats" \notin pipe.feats_dict
        THEN [out EXCEPT !.err = "KeyError", !.at = "rpn_head"]
        ELSE IF proposal.err # "none"
        THEN [out EXCEPT !.err = proposal.err, !.at = "proposal_cfg", !.rpn_head = TRUE]
        ELSE [out EXCEPT !.rpn_head = TRUE, !.get_bboxes = <<proposal.value>>, !.roi_head = TRUE]

----------------------------------------------------------------------------
(* Inputs *)

\* Bounds of the model
MaxPoints == 2
MaxSamples == 2
MaxVoxels == 2

\* Points <<x, y, z, f>>: inside the field of view, colliding in one cell,
\* with and without a feature, outside the field of view on every side, and
\* the all-zero point.
PointSet ==
    { <<1, 0, 0, 0>>, <<2, 0, 0, 0>>, <<1, 0, 0, 1>>, <<0, 0, 0, 1>>,
      <<4, 1, -1, 0>>, <<4, -1, 0, 2>>, <<0, 1, 0, 0>>, <<0, -1, 0, 0>>,
      <<-1, 0, 0, 0>>, <<0, 0, 1, 0>>, <<0, 0, -1, 0>>, <<0, 0, 0, 0>> }

RECURSIVE SeqsUpTo(_, _)
SeqsUpTo(S, n) ==
    IF n = 0 THEN {<<>>}
    ELSE LET shorter == SeqsUpTo(S, n - 1)
         IN  shorter \cup {Append(q, e) : q \in {t \in shorter : Len(t) = n - 1}, e \in S}

\* The sequences that take their i-th element from sets[i]
RECURSIVE Products(_)
Products(sets) ==
    IF Len(sets) = 0 THEN {<<>>}
    ELSE {<<h>> \o t : h \in Head(sets), t \in Products(Tail(sets))}

PointClouds == SeqsUpTo(PointSet, MaxPoints)

\* The samples of the batches given to forward_train and simple_test
BatchClouds ==
    { <<>>, <<<<2, 0, 0, 0>>>>, <<<<1, 0, 0, 1>>, <<4, 1, -1, 0>>>>, <<<<0, 0, 0, 0>>>> }

Batches == SeqsUpTo(BatchClouds, MaxSamples)

\* The number of channels fusion returns: 3 is the documented count, 8 the
\* count with which a 2 + n channel image fits the LidarOutChannels rows.
FusionChannels == {3, 8}

\* Range images handed to range_to_lidar_gpu directly: C channels, a depth per
\* written cell, and channel k >= 1 holding a value that names the channel and the cell.
ChannelCounts == {1, 2, 5, 10}
SynthCells == {<<8, 256>>, <<0, 0>>, <<47, 511>>}
SynthDepths == {0, Fix(2)}

SynthImage(C, device, depths) ==
    [C |-> C, device |-> device,
     cells |-> [cell \in DOMAIN depths |-> [k \in 0..(C - 1) |->
                   IF k = 0 THEN depths[cell] ELSE Fix(k) + RowOf(cell)]]]

SynthImages ==
    {SynthImage(C, device, depths) :
        C \in ChannelCounts, device \in Devices,
        depths \in UNION {[S -> SynthDepths] : S \in SUBSET SynthCells}}

\* Voxel grid coordinates <<z, y, x>> the voxel layer returns
CoorSet == {<<0, 0, 0>>, <<0, 1, 2>>, <<1, 0, 3>>}

\* The points the voxel at coor groups: one or two points of its cell
VoxelGroup(coor) ==
    [n \in 1..(1 + ((coor[1] + coor[2] + coor[3]) % 2)) |-> <<coor[3], coor[2], coor[1], n>>]

VoxelAt(coor) == [voxel |-> VoxelGroup(coor), coor |-> coor, num |-> Len(VoxelGroup(coor))]

\* What self.voxel_layer may return for a sample of m points: at most m and at
\* most MaxVoxels voxels, of distinct coordinates, in any order.
VoxelLayerResults(m) ==
    { [j \in 1..Len(q) |-> VoxelAt(q[j])] :
        q \in {t \in SeqsUpTo(CoorSet, Min(m, MaxVoxels)) :
                  \A a, b \in 1..Len(t) : a # b => t[a] # t[b]} }

\* A sample whose points are exactly the points of the voxels of r
SampleOf(r) == Cat([j \in 1..Len(r) |-> r[j].voxel])

----------------------------------------------------------------------------
(* Construction *)

NoEntries == [k \in {} |-> ""]
TrainCfgs ==
    { [none |-> TRUE, entries |-> NoEntries],
      [none |-> FALSE, entries |-> NoEntries],
      [none |-> FALSE, entries |-> [k \in {"rpn_proposal"} |-> "train_cfg.rpn_proposal"]] }
TestCfgs ==
    { [none |-> TRUE, entries |-> NoEntries],
      [none |-> FALSE, entries |-> [k \in {"rpn"} |-> "test_cfg.rpn"]] }

Cfgs ==
    [with_rpn : BOOLEAN, with_neck : BOOLEAN, train_cfg : TrainCfgs, test_cfg : TestCfgs]

\* The usual configuration: both heads, a neck, both configs complete.
FullCfg ==
    [with_rpn |-> TRUE, with_neck |-> TRUE,
     train_cfg |-> [none |-> FALSE, entries |-> [k \in {"rpn_proposal"} |-> "train_cfg.rpn_proposal"]],
     test_cfg |-> [none |-> FALSE, entries |-> [k \in {"rpn"} |-> "test_cfg.rpn"]]]

\* voxel_size and point_cloud_range[0:3] of the voxel layer, in (x, y, z) order
UnitLayer == [voxel_size |-> <<1, 1, 1>>, point_cloud_range |-> <<0, 0, 0>>]
VoxelLayers == {UnitLayer, [voxel_size |-> <<1, 2, 4>>, point_cloud_range |-> <<0, -40, -3>>]}

NoRet == [k \in {} |-> 0]

\* __init__, lines 19-59
Init ==
    /\ uv = [device |-> "cpu", data |-> UvData]
    /\ voxel_layer \in VoxelLayers
    /\ cfg \in Cfgs
    /\ call = "idle"
    /\ arguments = NoRet
    /\ returned = NoRet
    /\ err = "none"

----------------------------------------------------------------------------
(* Calls.  The detector is single-threaded: a call starts when no call is in
   progress (call = "idle"), runs to its return or its exception, and leaves its
   arguments and results in call, arguments, returned and err until the caller takes them
   (Idle). *)

Idle ==
    /\ call # "idle"
    /\ call' = "idle"
    /\ arguments' = NoRet
    /\ returned' = NoRet
    /\ err' = "none"
    /\ UNCHANGED <<uv, voxel_layer, cfg>>

LidarToRangeGpu(points, device) ==
    /\ call = "idle"
    /\ \E out \in LidarToRangeOutcomes(points, device) :
        /\ call' = "lidar_to_range_gpu"
        /\ arguments' = [points |-> points, device |-> device]
        /\ returned' = [u |-> out.u, v |-> out.v, image |-> out.image]
        /\ err' = out.err
        /\ UNCHANGED <<uv, voxel_layer, cfg>>

\* projected is <<points>> when range_img is the image lidar_to_range_gpu(points)
\* returned, and <<>> otherwise.
RangeToLidarGpu(range_img, projected) ==
    LET moved == To(uv, range_img.device)
        out == RangeToLidar(range_img, moved.data)
    IN  /\ uv' = moved
        /\ call' = "range_to_lidar_gpu"
        /\ arguments' = [range_img |-> range_img, projected |-> projected]
        /\ returned' = [lidar_out |-> out.lidar_out]
        /\ err' = out.err
        /\ UNCHANGED <<voxel_layer, cfg>>

VoxelizeCall(res) ==
    LET out == Voxelize(res, voxel_layer)
    IN  /\ call = "idle"
        /\ call' = "voxelize"
        /\ arguments' = [points |-> [i \in 1..Len(res) |-> SampleOf(res[i])]]
        /\ returned' = [res |-> res, voxel_dict |-> out.voxel_dict]
        /\ err' = out.err
        /\ UNCHANGED <<uv, voxel_layer, cfg>>

ExtractFeatCall(res) ==
    LET out == ExtractFeat(res, voxel_layer, cfg.with_neck)
    IN  /\ call = "idle"
        /\ call' = "extract_feat"
        /\ arguments' = [points |-> [i \in 1..Len(res) |-> SampleOf(res[i])]]
        /\ returned' = [res |-> res, voxel_dict |-> out.voxel_dict,
                   middle_encoder |-> out.middle_encoder, feats_dict |-> out.feats_dict]
        /\ err' = out.err
        /\ UNCHANGED <<uv, voxel_layer, cfg>>

\* The voxel layer's possible results on pts_with_range
PipelineVoxels(stage) ==
    IF stage.err = "none"
    THEN Products([i \in 1..Len(stage.pts_with_range) |->
                      VoxelLayerResults(Len(stage.pts_with_range[i]))])
    ELSE {<<>>}

\* The stages the batch may reach: one per outcome of the projections
RangeStages(points, device, n, grid) ==
    {RangeStage(outs, n, grid) :
        outs \in Products([i \in 1..Len(points) |-> LidarToRangeOutcomes(points[i], device)])}

\* The stages of every batch of Batches under the grid of construction,
\* computed once (@@ makes the table an explicit function)
StagesAtConstruction ==
    [b \in Batches, d \in Devices, n \in FusionChannels |-> RangeStages(b, d, n, UvData)] @@ <<>>

RangeStagesOf(points, device, n, grid) ==
    IF grid = UvData /\ points \in Batches /\ n \in FusionChannels
    THEN StagesAtConstruction[points, device, n]
    ELSE RangeStages(points, device, n, grid)

\* What the batch's stages and the voxel layer's results make of the call:
\* whether self.uv was moved, and what the heads did.
TrainOutcomes(stages, layer, config) ==
    UNION { {[moved |-> stage.moved,
              out |-> TrainHeads(Pipeline(stage, res, layer, config.with_neck), config)] :
                res \in PipelineVoxels(stage)} : stage \in stages }

TestOutcomes(stages, layer, config) ==
    UNION { {[moved |-> stage.moved,
              out |-> TestHeads(Pipeline(stage, res, layer, config.with_neck), config)] :
                res \in PipelineVoxels(stage)} : stage \in stages }

ForwardTrain(points, device, n) ==
    /\ call = "idle"
    /\ \E o \in TrainOutcomes(RangeStagesOf(points, device, n, uv.data), voxel_layer, cfg) :
          /\ uv' = IF o.moved THEN To(uv, device) ELSE uv
          /\ call' = "forward_train"
          /\ arguments' = [points |-> points, device |-> device, fusion |-> n]
          /\ returned' = [at |-> o.out.at, middle_encoder |-> o.out.middle_encoder,
                          rpn_head |-> o.out.rpn_head, get_bboxes |-> o.out.get_bboxes,
                          roi_head |-> o.out.roi_head]
          /\ err' = o.out.err
          /\ UNCHANGED <<voxel_layer, cfg>>

SimpleTest(points, device, n) ==
    /\ call = "idle"
    /\ \E o \in TestOutcomes(RangeStagesOf(points, device, n, uv.data), voxel_layer, cfg) :
          /\ uv' = IF o.moved THEN To(uv, device) ELSE uv
          /\ call' = "simple_test"
          /\ arguments' = [points |-> points, device |-> device, fusion |-> n]
          /\ returned' = [at |-> o.out.at, middle_encoder |-> o.out.middle_encoder,
                          rpn_head |-> o.out.rpn_head, get_bboxes |-> o.out.get_bboxes,
                          roi_head |-> o.out.roi_head]
          /\ err' = o.out.err
          /\ UNCHANGED <<voxel_layer, cfg>>

----------------------------------------------------------------------------
(* Specifications *)

\* The projection pair called on its own, on every point cloud of PointClouds
Project == \E points \in PointClouds, device \in Devices : LidarToRangeGpu(points, device)

Unproject == \E img \in SynthImages : call = "idle" /\ RangeToLidarGpu(img, <<>>)

RoundTrip ==
    /\ call = "lidar_to_range_gpu"
    /\ err = "none"
    /\ RangeToLidarGpu(returned.image, <<arguments.points>>)

InitProj == Init /\ cfg = FullCfg /\ voxel_layer = UnitLayer

NextProj == Project \/ Unproject \/ RoundTrip \/ Idle

SpecProj == InitProj /\ [][NextProj]_vars

\* voxelize and extract_feat called on their own
VoxelInputs == SeqsUpTo(VoxelLayerResults(MaxVoxels), MaxSamples)

DoVoxelize == \E res \in VoxelInputs : VoxelizeCall(res)

DoExtractFeat == \E res \in VoxelInputs : ExtractFeatCall(res)

InitVox == Init /\ cfg \in {c \in Cfgs : c.train_cfg = FullCfg.train_cfg /\ c.test_cfg = FullCfg.test_cfg /\ c.with_rpn}

NextVox == DoVoxelize \/ DoExtractFeat \/ Idle

SpecVox == InitVox /\ [][NextVox]_vars

\* The detector: every configuration, the two entry points and the projection pair
ProjectSample == \E points \in BatchClouds, device \in Devices : LidarToRangeGpu(points, device)

DoForwardTrain ==
    \E points \in Batches, device \in Devices, n \in FusionChannels : ForwardTrain(points, device, n)

DoSimpleTest ==
    \E points \in Batches, device \in Devices, n \in FusionChannels : SimpleTest(points, device, n)

InitDet == Init /\ voxel_layer = UnitLayer

Next == ProjectSample \/ Unproject \/ RoundTrip \/ DoForwardTrain \/ DoSimpleTest \/ Idle

Spec == InitDet /\ [][Next]_vars

----------------------------------------------------------------------------
(* Claims about the projection pair, under SpecProj *)

\* C1: every column index u computed by lidar_to_range_gpu is in 0 .. W - 1 and
\* every row index v in 0 .. H - 1, for every input point, the all-zero point
\* included.
C1_IndicesInGrid ==
    call = "lidar_to_range_gpu" =>
        \A i \in 1..Len(arguments.points) :
            /\ 0 <= returned.u[i] /\ returned.u[i] <= W - 1
            /\ 0 <= returned.v[i] /\ returned.v[i] <= H - 1

\* C2: when several points of the input map to one cell, all five channels of
\* the cell hold the values of the last of them in the input sequence.
C2_LastWriteWins ==
    (call = "lidar_to_range_gpu" /\ err = "none") =>
        \A cell \in DOMAIN returned.image.cells :
            LET hits == {i \in 1..Len(arguments.points) : <<returned.v[i], returned.u[i]>> = cell}
                last == CHOOSE i \in hits : \A j \in hits : j <= i
            IN  \A k \in 0..(RangeChannels - 1) :
                    returned.image.cells[cell][k] = ChannelValue(arguments.points[last], k)

\* C3: a single point of non-zero depth, projected alone and unprojected again,
\* comes back as exactly one point with its x, y, z within tolerance (a
\* twentieth of a unit) and its feature unchanged.
C3_RoundTrip ==
    ( /\ call = "range_to_lidar_gpu"
      /\ Len(arguments.projected) = 1
      /\ Len(arguments.projected[1]) = 1
      /\ SumSq(arguments.projected[1][1], 3) > 0 ) =>
        LET p == arguments.projected[1][1]
        IN  /\ err = "none"
            /\ Len(returned.lidar_out) = 1
            /\ \A k \in 0..2 : Abs(returned.lidar_out[1][k] - Col(p, k)) <= FixOne \div 20
            /\ returned.lidar_out[1][3] = Col(p, 3)

\* C7: the depth written into channel 0 of a point's cell is the Euclidean norm
\* of (x, y, z) alone, whatever the feature f (stated for the points that are
\* alone in their cell).
C7_DepthIsNormOfXYZ ==
    (call = "lidar_to_range_gpu" /\ err = "none") =>
        \A i \in 1..Len(arguments.points) :
            (\A j \in 1..Len(arguments.points) :
                j # i => <<returned.v[j], returned.u[j]>> # <<returned.v[i], returned.u[i]>>) =>
                returned.image.cells[<<returned.v[i], returned.u[i]>>][0] = Isqrt(SumSq(arguments.points[i], 3))

\* C8: range_to_lidar_gpu on a range image of C channels returns without error
\* points of exactly 3 + (C - 1) attributes, attribute 3 + k being channel 1 + k
\* of the point's cell, for k in 0 .. C - 2.
C8_AttributesFollowChannels ==
    call = "range_to_lidar_gpu" =>
        LET img == arguments.range_img
            order == InRowOrder(KeptCells(img, uv.data))
        IN  /\ err = "none"
            /\ Len(returned.lidar_out) = Len(order)
            /\ \A i \in 1..Len(returned.lidar_out) :
                /\ DOMAIN returned.lidar_out[i] = 0..(3 + (img.C - 1) - 1)
                /\ \A k \in 0..(img.C - 2) :
                      returned.lidar_out[i][3 + k] = img.cells[order[i]][1 + k]

----------------------------------------------------------------------------
(* Claims about voxelize and extract_feat, under SpecVox *)

\* C4: the first column of the concatenated coordinates never decreases, and
\* every voxel's row is the 0-based position of its sample in the input list
\* followed by the voxel's own (z, y, x) coordinate.
C4_BatchIndexPrefix ==
    (call \in {"voxelize", "extract_feat"} /\ Len(returned.res) > 0) =>
        LET res == returned.res
            coors == returned.voxel_dict.coors
            before[i \in 0..Len(res)] == IF i = 0 THEN 0 ELSE before[i - 1] + Len(res[i])
        IN  /\ Len(coors) = before[Len(res)]
            /\ \A k \in 1..(Len(coors) - 1) : coors[k][1] <= coors[k + 1][1]
            /\ \A i \in 1..Len(res) : \A j \in 1..Len(res[i]) :
                  coors[before[i - 1] + j] = <<i - 1>> \o res[i][j].coor

C4_Witness ==
    /\ call = "voxelize"
    /\ Len(returned.res) = 2
    /\ Len(returned.res[1]) = 2
    /\ Len(returned.res[2]) = 1
    /\ returned.voxel_dict.coors[3] = <<1, 0, 1, 2>>

\* C6: the center of the voxel at (cz, cy, cx) is ((cx, cy, cz) + 0.5) *
\* voxel_size + range origin (here in halves), and row k of voxel_centers,
\* voxels and num_points belongs to the voxel of row k of the coordinates.
C6_VoxelCenters ==
    (call \in {"voxelize", "extract_feat"} /\ Len(returned.res) > 0) =>
        LET d == returned.voxel_dict
            size == voxel_layer.voxel_size
            origin == voxel_layer.point_cloud_range
        IN  /\ Len(d.voxel_centers) = Len(d.coors)
            /\ Len(d.voxels) = Len(d.coors)
            /\ Len(d.num_points) = Len(d.coors)
            /\ \A k \in 1..Len(d.coors) :
                LET cz == d.coors[k][2]
                    cy == d.coors[k][3]
                    cx == d.coors[k][4]
                IN  /\ d.voxel_centers[k] = << (2 * cx + 1) * size[1] + 2 * origin[1],
                                               (2 * cy + 1) * size[2] + 2 * origin[2],
                                               (2 * cz + 1) * size[3] + 2 * origin[3] >>
                    /\ d.voxels[k] = VoxelGroup(<<cz, cy, cx>>)
                    /\ d.num_points[k] = Len(VoxelGroup(<<cz, cy, cx>>))

C6_Witness ==
    /\ call = "voxelize"
    /\ voxel_layer # UnitLayer
    /\ Len(returned.res) = 2
    /\ Len(returned.voxel_dict.coors) = 3
    /\ returned.voxel_dict.coors[3] = <<1, 0, 1, 2>>
    /\ returned.voxel_dict.voxel_centers[3] = <<5, -74, -2>>

\* C9: whenever the batch yields a voxel, the batch size passed to the middle
\* encoder is the largest batch index of the coordinates plus one, which is
\* the number of samples when every sample yields a voxel.
C9_BatchSize ==
    (call = "extract_feat" /\ Len(returned.voxel_dict.coors) > 0) =>
        LET coors == returned.voxel_dict.coors
            indices == {coors[k][1] : k \in 1..Len(coors)}
            largest == CHOOSE b \in indices : \A a \in indices : a <= b
        IN  /\ err = "none"
            /\ returned.middle_encoder = <<largest + 1>>
            /\ (\A i \in 1..Len(returned.res) : Len(returned.res[i]) > 0) => largest + 1 = Len(arguments.points)

C9_Witness ==
    /\ call = "extract_feat"
    /\ Len(arguments.points) = 2
    /\ Len(returned.res[1]) > 0
    /\ Len(returned.res[2]) > 0
    /\ returned.middle_encoder = <<2>>

----------------------------------------------------------------------------
(* Claims about the detector, under Spec *)

\* C5: with a region-proposal head, forward_train passes train_cfg's
\* 'rpn_proposal' to get_bboxes whenever that entry is present, whether or not
\* a test config exists, and test_cfg.rpn when it is absent; simple_test passes
\* test_cfg.rpn.
C5_ProposalCfg ==
    /\ (call = "forward_train" /\ cfg.with_rpn /\ returned.rpn_head) =>
          /\ HasAttr(cfg.train_cfg, "rpn_proposal") =>
                returned.get_bboxes = <<cfg.train_cfg.entries["rpn_proposal"]>>
          /\ (~cfg.train_cfg.none /\ ~HasAttr(cfg.train_cfg, "rpn_proposal")
                /\ HasAttr(cfg.test_cfg, "rpn")) =>
                returned.get_bboxes = <<cfg.test_cfg.entries["rpn"]>>
    /\ (call = "simple_test" /\ cfg.with_rpn /\ returned.rpn_head /\ HasAttr(cfg.test_cfg, "rpn")) =>
          returned.get_bboxes = <<cfg.test_cfg.entries["rpn"]>>

\* C10: after construction and after every call, the grid holds the values of
\* construction: uv[0][r][c] = (1 - r / H) * fov - |fov_down| and
\* uv[1][r][c] = (2 c - W) * pi / (4 W), for every row r and column c (plane 0
\* has one stored value per row, plane 1 one per column).
C10_UvUnchanged ==
    /\ Len(uv.data) = 2
    /\ Len(uv.data[1]) = H
    /\ Len(uv.data[2]) = W
    /\ \A r \in 0..(H - 1) :
          H * GridAt(uv.data, 0, r, 0) = (H - r) * fov - H * Abs(DegToRad(fov_down))
    /\ \A c \in 0..(W - 1) :
          4 * W * GridAt(uv.data, 1, 0, c) = (2 * c - W) * pi

C10_Witness ==
    /\ call = "forward_train"
    /\ err = "none"
    /\ uv.device = "cuda"
    /\ GridAt(uv.data, 0, 8, 256) = 0
    /\ GridAt(uv.data, 1, 47, 0) = -(pi \div 4)

====
